---- MODULE Spec2Model ----
(***************************************************************************)
(* Matchmaking engine of the duel bot: pending queues, pair scorer,        *)
(* debounced scan of a ready toggle, match creation and duel-result        *)
(* ingestion, as the handlers of bot.py and the helpers of hellcup.py      *)
(* run them on one cooperative event loop.                                 *)
(*                                                                         *)
(* Scores are floats in the source; they are kept here in hundredths       *)
(* (1.0 = 100), every value the scorer produces without the skill term     *)
(* being a multiple of 0.01.                                               *)
(***************************************************************************)
EXTENDS Integers, Sequences, FiniteSets, TLC

\* --------------------------------------------------------------------------
\* Generic list helpers (Python list semantics)
\* --------------------------------------------------------------------------

Range(s) == {s[i] : i \in 1..Len(s)}

Min(a, b) == IF a <= b THEN a ELSE b

Abs(a) == IF a < 0 THEN 0 - a ELSE a

\* s[::-1]
Reverse(s) == [i \in 1..Len(s) |-> s[Len(s) + 1 - i]]

\* list.index(x): 0-based position of the first occurrence (x is in s)
Index(s, x) == (CHOOSE i \in 1..Len(s) : s[i] = x /\ \A j \in 1..(i - 1) : s[j] # x) - 1

\* list.remove(x): drops the first occurrence (x is in s)
Remove(s, x) ==
  LET i == Index(s, x) + 1
  IN [j \in 1..(Len(s) - 1) |-> IF j < i THEN s[j] ELSE s[j + 1]]

\* --------------------------------------------------------------------------
\* Scorer (hellcup.get_duel_score)
\* --------------------------------------------------------------------------

\* 0.5: contribution of an opponent never met
NoveltyCap == 50

\* 0.1: contribution step per position from the end of previousOpponents
NoveltyStep == 10

\* 0.01: penalty for a team whose lastGamemode is the candidate gamemode
GamemodePenalty == 1

\* both teams need this many recorded outcomes for the skill term
MinScoresForRatio == 5

\* a returned float (hundredths) or a raised exception
Return(v) == [exc |-> "", val |-> v]

Raise(e) == [exc |-> e, val |-> 0]

\* sum(xs) of Python: 0 + xs[0] + ...; the outcomes are the strings "1" and "0"
\* (bot.py appends "1"/"0"), and int + str raises TypeError
PySum(xs) == IF Len(xs) = 0 THEN Return(0) ELSE Raise("TypeError")

Mut_NoReverse_get_duel_score(team1, team2, gamemode) ==
  LET allPros == <<team1.member1.isPro, team1.member2.isPro,
                   team2.member1.isPro, team2.member2.isPro>>
      allFlags == <<team1.member1.flag, team1.member2.flag,
                    team2.member1.flag, team2.member2.flag>>
      allPlayers == <<team1.member1.discordId, team1.member2.discordId,
                      team2.member1.discordId, team2.member2.discordId>>
      term(me, other) ==
        IF me.teamName \notin Range(other.previousOpponents)
        THEN NoveltyCap
        ELSE Min(NoveltyStep * (Index(other.previousOpponents, me.teamName) + 1),
                 NoveltyCap)
      pen(t) == IF t.lastGamemode = gamemode THEN GamemodePenalty ELSE 0
  IN IF ~((TRUE \in Range(allPros)) /\ Cardinality(Range(allFlags)) > 1
          /\ Cardinality(Range(allPlayers)) = 4)
     THEN Return(0)
     ELSE IF Len(team1.score) >= MinScoresForRatio /\ Len(team2.score) >= MinScoresForRatio
          THEN Raise("TypeError")
          ELSE Return(term(team1, team2) + (term(team2, team1) - pen(team1)) - pen(team2))

Mut_OnePenalty_get_duel_score(team1, team2, gamemode) ==
  LET allPros == <<team1.member1.isPro, team1.member2.isPro,
                   team2.member1.isPro, team2.member2.isPro>>
      allFlags == <<team1.member1.flag, team1.member2.flag,
                    team2.member1.flag, team2.member2.flag>>
      allPlayers == <<team1.member1.discordId, team1.member2.discordId,
                      team2.member1.discordId, team2.member2.discordId>>
      term(me, other) ==
        IF me.teamName \notin Range(other.previousOpponents)
        THEN NoveltyCap
        ELSE Min(NoveltyStep * (Index(Reverse(other.previousOpponents), me.teamName) + 1),
                 NoveltyCap)
  IN IF ~((TRUE \in Range(allPros)) /\ Cardinality(Range(allFlags)) > 1
          /\ Cardinality(Range(allPlayers)) = 4)
     THEN Return(0)
     ELSE IF Len(team1.score) >= MinScoresForRatio /\ Len(team2.score) >= MinScoresForRatio
          THEN Raise("TypeError")
          ELSE Return(term(team1, team2) + term(team2, team1)
                      - (IF team1.lastGamemode = gamemode THEN GamemodePenalty ELSE 0))

Mut_NoPlayerCheck_get_duel_score(team1, team2, gamemode) ==
  LET allPros == <<team1.member1.isPro, team1.member2.isPro,
                   team2.member1.isPro, team2.member2.isPro>>
      allFlags == <<team1.member1.flag, team1.member2.flag,
                    team2.member1.flag, team2.member2.flag>>
      term(me, other) ==
        IF me.teamName \notin Range(other.previousOpponents)
        THEN NoveltyCap
        ELSE Min(NoveltyStep * (Index(Reverse(other.previousOpponents), me.teamName) + 1),
                 NoveltyCap)
      pen(t) == IF t.lastGamemode = gamemode THEN GamemodePenalty ELSE 0
  IN IF ~((TRUE \in Range(allPros)) /\ Cardinality(Range(allFlags)) > 1)
     THEN Return(0)
     ELSE IF Len(team1.score) >= MinScoresForRatio /\ Len(team2.score) >= MinScoresForRatio
          THEN Raise("TypeError")
          ELSE Return(term(team1, team2) + (term(team2, team1) - pen(team1)) - pen(team2))

Mut_NoCap_get_duel_score(team1, team2, gamemode) ==
  LET allPros == <<team1.member1.isPro, team1.member2.isPro,
                   team2.member1.isPro, team2.member2.isPro>>
      allFlags == <<team1.member1.flag, team1.member2.flag,
                    team2.member1.flag, team2.member2.flag>>
      allPlayers == <<team1.member1.discordId, team1.member2.discordId,
                      team2.member1.discordId, team2.member2.discordId>>
      term(me, other) ==
        IF me.teamName \notin Range(other.previousOpponents)
        THEN NoveltyCap
        ELSE NoveltyStep * (Index(Reverse(other.previousOpponents), me.teamName) + 1)
      pen(t) == IF t.lastGamemode = gamemode THEN GamemodePenalty ELSE 0
  IN IF ~((TRUE \in Range(allPros)) /\ Cardinality(Range(allFlags)) > 1
          /\ Cardinality(Range(allPlayers)) = 4)
     THEN Return(0)
     ELSE IF Len(team1.score) >= MinScoresForRatio /\ Len(team2.score) >= MinScoresForRatio
          THEN Raise("TypeError")
          ELSE Return(term(team1, team2) + (term(team2, team1) - pen(team1)) - pen(team2))

\* hellcup.get_duel_score: the eligibility gate, the two novelty terms, the
\* skill term (which sums the outcome strings) and the gamemode penalties
get_duel_score(team1, team2, gamemode) ==
  LET allPros == <<team1.member1.isPro, team1.member2.isPro,
                   team2.member1.isPro, team2.member2.isPro>>
      allFlags == <<team1.member1.flag, team1.member2.flag,
                    team2.member1.flag, team2.member2.flag>>
      allPlayers == <<team1.member1.discordId, team1.member2.discordId,
                      team2.member1.discordId, team2.member2.discordId>>
      \* 0.5 if me not in other's previousOpponents, else min(0.1*(rev index + 1), 0.5)
      term(me, other) ==
        IF me.teamName \notin Range(other.previousOpponents)
        THEN NoveltyCap
        ELSE Min(NoveltyStep * (Index(Reverse(other.previousOpponents), me.teamName) + 1),
                 NoveltyCap)
      previousOpponentsScore == term(team1, team2) + term(team2, team1)
      team1Sum == PySum(team1.score)
      team2Sum == PySum(team2.score)
      pen(t) == IF t.lastGamemode = gamemode THEN GamemodePenalty ELSE 0
  IN IF ~((TRUE \in Range(allPros)) /\ Cardinality(Range(allFlags)) > 1
          /\ Cardinality(Range(allPlayers)) = 4)
     THEN Return(0)
     ELSE IF Len(team1.score) >= MinScoresForRatio /\ Len(team2.score) >= MinScoresForRatio
          THEN \* sum(team1["score"]) is evaluated first, then sum(team2["score"])
               IF team1Sum.exc # "" THEN Raise(team1Sum.exc)
               ELSE Raise(team2Sum.exc)
          ELSE Return(previousOpponentsScore - pen(team1) - pen(team2))

\* --------------------------------------------------------------------------
\* Roster (inscriptions.json, static part) and Discord roles
\* --------------------------------------------------------------------------

\* a team key "idA_idB" is kept as the pair of its two ids (split("_"))
T1 == <<1, 2>>

T2 == <<3, 4>>

T3 == <<5, 6>>

T4 == <<7, 8>>

Teams == {T1, T2, T3, T4}

Players == {t[1] : t \in Teams} \cup {t[2] : t \in Teams}

NM == "NM 30s"

NMPZ == "NMPZ 15s"

None == "None"

\* players[id]: discordId, isPro, flag, geoguessrId
PlayerData(p) ==
  [discordId |-> p,
   isPro |-> (p = 1),
   flag |-> IF p \in {2, 5} THEN "de" ELSE "fr",
   geoguessrId |-> 100 + p]

\* the members' mode roles (NM_role_id / NMPZ_role_id)
HasRole(p, mode) ==
  IF mode = NM THEN p \in {1, 2, 3, 4, 7} ELSE p \in {1, 2, 5, 6, 8}

\* the mutable attributes of a team of inscriptions.json as create_team sets them
NewTeamData ==
  [score |-> <<>>, previousOpponents |-> <<>>, previousDuelIds |-> <<>>,
   lastGamemode |-> None]

\* inscriptionData["teams"][teamName] as the scorer reads it
TeamDict(teams, t) ==
  [teamName |-> t,
   member1 |-> PlayerData(t[1]),
   member2 |-> PlayerData(t[2]),
   score |-> teams[t].score,
   previousOpponents |-> teams[t].previousOpponents,
   previousDuelIds |-> teams[t].previousDuelIds,
   lastGamemode |-> teams[t].lastGamemode]

\* --------------------------------------------------------------------------
\* Match selection (hellcup.watch_for_matches)
\* --------------------------------------------------------------------------

\* [(l[i], l[j]) for i in range(len(l)) for j in range(i + 1, len(l)) if i != j]
RECURSIVE PairsFrom(_, _, _)
PairsFrom(l, i, j) ==
  IF i > Len(l) THEN <<>>
  ELSE IF j > Len(l) THEN PairsFrom(l, i + 1, i + 2)
  ELSE <<(<<l[i], l[j]>>)>> \o PairsFrom(l, i, j + 1)

AvailableTeamsPairs(l) == PairsFrom(l, 1, 2)

RECURSIVE Mut_Unstable_InsertDesc(_, _)
Mut_Unstable_InsertDesc(sorted, x) ==
  IF sorted = <<>> THEN <<x>>
  ELSE IF Head(sorted)[2] > x[2]
       THEN <<Head(sorted)>> \o Mut_Unstable_InsertDesc(Tail(sorted), x)
  ELSE <<x>> \o sorted

\* sorted(xs, key=lambda x: x[1], reverse=True): stable, descending
RECURSIVE InsertDesc(_, _)
InsertDesc(sorted, x) ==
  IF sorted = <<>> THEN <<x>>
  ELSE IF Head(sorted)[2] >= x[2] THEN <<Head(sorted)>> \o InsertDesc(Tail(sorted), x)
  ELSE <<x>> \o sorted

\* insertion sort; the list and the sorted prefix are bound to their values
\* (v, before), so that each is evaluated once
RECURSIVE SortedDesc(_)
SortedDesc(xs) ==
  CHOOSE r \in
    {IF v = <<>> THEN <<>>
     ELSE CHOOSE q \in {InsertDesc(before, v[Len(v)]) :
                          before \in {SortedDesc(SubSeq(v, 1, Len(v) - 1))}} : TRUE
     : v \in {xs}} : TRUE

SelectSeqPositive(xs) == SelectSeq(xs, LAMBDA m : m[2] > 0)

\* the scores of the pairs of one mode, in enumeration order
PairsScores(inscTeams, pairs, gamemode) ==
  [k \in 1..Len(pairs) |->
     get_duel_score(TeamDict(inscTeams, pairs[k][1]), TeamDict(inscTeams, pairs[k][2]),
                    gamemode)]

\* hellcup.watch_for_matches: ranked candidates <<(team1, team2), score, gamemode>>,
\* or the exception a get_duel_score call raised
watch_for_matches(matchmakingData, inscTeams) ==
  LET nmPairs == AvailableTeamsPairs(matchmakingData.pendingTeams.NM)
      nmpzPairs == AvailableTeamsPairs(matchmakingData.pendingTeams.NMPZ)
      nmScores == PairsScores(inscTeams, nmPairs, NM)
      nmpzScores == PairsScores(inscTeams, nmpzPairs, NMPZ)
      raised == \/ \E k \in 1..Len(nmScores) : nmScores[k].exc # ""
                \/ \E k \in 1..Len(nmpzScores) : nmpzScores[k].exc # ""
      nmSorted == SortedDesc([k \in 1..Len(nmPairs) |-> <<nmPairs[k], nmScores[k].val, NM>>])
      nmpzSorted ==
        SortedDesc([k \in 1..Len(nmpzPairs) |-> <<nmpzPairs[k], nmpzScores[k].val, NMPZ>>])
  IN IF raised THEN [exc |-> "TypeError", val |-> <<>>]
     ELSE [exc |-> "", val |-> SelectSeqPositive(SortedDesc(nmSorted \o nmpzSorted))]

\* --------------------------------------------------------------------------
\* Match registry (hellcup.create_match, hellcup.find_match_with_user_id)
\* --------------------------------------------------------------------------

NoMatch ==
  [teams |-> <<>>, team1 |-> <<>>, team2 |-> <<>>, usersIds |-> <<>>,
   matchType |-> None, startTime |-> 0]

\* user_in_match is a list read only by membership tests, extend and remove: it is
\* kept as the count of occurrences of each id
EmptyRegistry == [p \in Players |-> 0]

InRegistry(registry, p) == registry[p] > 0

RECURSIVE Extend(_, _)
Extend(registry, ids) ==
  IF ids = <<>> THEN registry
  ELSE Extend([registry EXCEPT ![Head(ids)] = @ + 1], Tail(ids))

\* allIds of bot.on_interaction: the four ids of the popped candidate
AllIds(match) == <<match[1][1][1], match[1][1][2], match[1][2][1], match[1][2][2]>>

RemoveIfIn(l, x) == IF x \in Range(l) THEN Remove(l, x) ELSE l

\* hellcup.create_match: the record, the removal of one occurrence of each team
\* from each list, and the append to currentMatches
create_match(match, matchmakingData, allIds, startTime) ==
  LET teams == match[1]
      matchData ==
        [teams |-> teams, team1 |-> teams[1], team2 |-> teams[2], usersIds |-> allIds,
         matchType |-> match[3], startTime |-> startTime]
      nm1 == RemoveIfIn(matchmakingData.pendingTeams.NM, teams[1])
      nmpz1 == RemoveIfIn(matchmakingData.pendingTeams.NMPZ, teams[1])
      nm2 == RemoveIfIn(nm1, teams[2])
      nmpz2 == RemoveIfIn(nmpz1, teams[2])
  IN [pendingTeams |-> [NM |-> nm2, NMPZ |-> nmpz2],
      currentMatches |-> Append(matchmakingData.currentMatches, matchData)]

Mut_AnyMatch_find_match_with_user_id(matchmakingData, idTemp) ==
  IF matchmakingData.currentMatches = <<>> THEN NoMatch
  ELSE matchmakingData.currentMatches[1]

\* hellcup.find_match_with_user_id: the first current match holding the id
find_match_with_user_id(matchmakingData, idTemp) ==
  LET cm == matchmakingData.currentMatches
      hits == {k \in 1..Len(cm) : idTemp \in Range(cm[k].usersIds)}
  IN IF hits = {} THEN NoMatch
     ELSE cm[CHOOSE k \in hits : \A h \in hits : k <= h]

\* --------------------------------------------------------------------------
\* State
\* --------------------------------------------------------------------------

\* events of a run (clicks on matchmaking buttons, duel links posted, resets)
\* when handlers interleave
MaxEvents == 5

\* events of a run when every handler runs to its end before the next event
SeqEvents == 6

\* events of a run long enough for a team to be matched, queued again and
\* matched again while handlers interleave
RaceEvents == 6

\* handlers (toggle handlers with their scans, result ingestions) in flight at
\* once when handlers interleave
HandlerSlots == {1, 2}

\* the teams whose buttons are clicked when handlers interleave
BusyTeams == {T1, T2, T3}

\* the duel ids posted, with the player the duel service lists first on the winning side
DuelIds == {"d1", "d2"}

WinningPlayer(duelId) == IF duelId = "d1" THEN 1 ELSE 4

\* the result-ingestion handlers that can be in flight
IngIds == {1, 2}

VARIABLES
  mmFile,         \* matchmaking.json: pendingTeams, currentMatches
  inscTeams,      \* inscriptions.json: the teams' score, previousOpponents, ...
  user_in_match,  \* bot.user_in_match
  button,         \* the label of each team's matchmaking button
  scan,           \* per team: its ready-toggle handler (bot.on_interaction)
  unready,        \* per team: its un-ready handler waits to run its file update
  ing,            \* result-ingestion handlers (bot.on_message)
  startClock,     \* number of matches created (time.time() of create_match)
  events,         \* number of clicks and posted links so far
  lim,            \* the bounds of the run: handlers in flight, events, teams clicking,
                  \* ingestion handlers in use
  sc,             \* a scorer call: arguments and results
  closedMatches   \* history: the matches a result ingestion took out of matchmaking.json

vars == <<mmFile, inscTeams, user_in_match, button, scan, unready, ing, startClock,
          events, lim, sc, closedMatches>>

NoCall == [state |-> "none"]

EmptyMM == [pendingTeams |-> [NM |-> <<>>, NMPZ |-> <<>>], currentMatches |-> <<>>]

IdleScan ==
  [pc |-> "idle", matchmakingData |-> EmptyMM, availableTeamsPairsScores |-> <<>>,
   match |-> <<>>, timeout |-> 0]

IdleIng ==
  [pc |-> "idle", author |-> 0, duelId |-> "", match |-> NoMatch,
   matchmakingData |-> EmptyMM, inscriptionData |-> <<>>, winningTeam |-> <<>>,
   loosingTeam |-> <<>>]

InFlight ==
  Cardinality({t \in Teams : scan[t].pc # "idle"})
  + Cardinality({t \in Teams : unready[t]})
  + Cardinality({i \in IngIds : ing[i].pc # "idle"})

\* the state after start-up: empty queues, no match, fresh teams, every button
\* on "Find a Match"
Start ==
  /\ mmFile = EmptyMM
  /\ inscTeams = [t \in Teams |-> NewTeamData]
  /\ user_in_match = EmptyRegistry
  /\ button = [t \in Teams |-> "READY"]
  /\ scan = [t \in Teams |-> IdleScan]
  /\ unready = [t \in Teams |-> FALSE]
  /\ ing = [i \in IngIds |-> IdleIng]
  /\ startClock = 0
  /\ events = 0
  /\ closedMatches = {}

\* handlers interleave at their awaits
Init ==
  /\ Start
  /\ sc = NoCall
  /\ lim = [slots |-> Cardinality(HandlerSlots), events |-> MaxEvents, teams |-> BusyTeams,
           ings |-> {1}]

\* handlers interleave, over the longer run
InitRace ==
  /\ Start
  /\ sc = NoCall
  /\ lim = [slots |-> Cardinality(HandlerSlots), events |-> RaceEvents, teams |-> BusyTeams,
           ings |-> {1}]

\* every handler runs to its end before the next event arrives
InitSeq ==
  /\ Start
  /\ sc = NoCall
  /\ lim = [slots |-> 1, events |-> SeqEvents, teams |-> Teams, ings |-> {1}]

\* events of a run in which two reports of one match interleave
IngestEvents == 6

\* the teams whose buttons are clicked in that run
ReportedTeams == {T1, T2}

\* handlers interleave and two result ingestions can be in flight together
InitIngest ==
  /\ Start
  /\ sc = NoCall
  /\ lim = [slots |-> Cardinality(HandlerSlots), events |-> IngestEvents,
            teams |-> ReportedTeams, ings |-> IngIds]

\* --------------------------------------------------------------------------
\* Ready toggle and its scan (bot.on_interaction, "is_team_ready" branch)
\* --------------------------------------------------------------------------

\* bot.wait_for("on_interaction", check=...): every toggle click ends the wait of
\* every scan that is waiting (the check reads the waiting handler's own message)
Dispatch(sc_) ==
  [t \in Teams |-> IF sc_[t].pc = "wait" THEN [sc_[t] EXCEPT !.pc = "woken"] ELSE sc_[t]]

\* timeout = min((1.0 - best score) * 100, 60), in seconds
DebounceCap == 60

ZeroWaitBelow == 5

Mut_NoCap_Timeout(score) == 100 - score

Timeout(score) == Min(100 - score, DebounceCap)

Mut_AtMost_LoopHead(h, avail) ==
  IF avail = <<>>
  THEN IdleScan
  ELSE IF Timeout(avail[1][2]) <= ZeroWaitBelow
       THEN [h EXCEPT !.pc = "popped", !.match = avail[1],
                      !.availableTeamsPairsScores = Tail(avail),
                      !.timeout = Timeout(avail[1][2])]
       ELSE [h EXCEPT !.pc = "wait", !.availableTeamsPairsScores = avail,
                      !.timeout = Timeout(avail[1][2])]

\* the head of the while loop: the handler ends on an empty list, pops the best
\* candidate at once when timeout < 5, and waits otherwise
LoopHead(h, avail) ==
  IF avail = <<>>
  THEN IdleScan
  ELSE IF Timeout(avail[1][2]) < ZeroWaitBelow
       THEN [h EXCEPT !.pc = "popped", !.match = avail[1],
                      !.availableTeamsPairsScores = Tail(avail),
                      !.timeout = Timeout(avail[1][2])]
       ELSE [h EXCEPT !.pc = "wait", !.availableTeamsPairsScores = avail,
                      !.timeout = Timeout(avail[1][2])]

\* click on "Find a Match": the button turns to "Waiting for a Match"
ClickReady(t) ==
  /\ t \in lim.teams
  /\ button[t] = "READY"
  /\ scan[t].pc = "idle"
  /\ InFlight < lim.slots
  /\ events < lim.events
  /\ button' = [button EXCEPT ![t] = "WAITING"]
  /\ scan' = [Dispatch(scan) EXCEPT ![t] = [IdleScan EXCEPT !.pc = "load"]]
  /\ events' = events + 1
  /\ UNCHANGED <<mmFile, inscTeams, user_in_match, unready, ing, startClock, lim, sc,
                 closedMatches>>

Mut_EitherMember_Enqueue(matchmakingData, t) ==
  LET nm == IF HasRole(t[1], NM) \/ HasRole(t[2], NM)
            THEN Append(matchmakingData.pendingTeams.NM, t)
            ELSE matchmakingData.pendingTeams.NM
      nmpz == IF HasRole(t[1], NMPZ) \/ HasRole(t[2], NMPZ)
              THEN Append(matchmakingData.pendingTeams.NMPZ, t)
              ELSE matchmakingData.pendingTeams.NMPZ
  IN [matchmakingData EXCEPT !.pendingTeams = [NM |-> nm, NMPZ |-> nmpz]]

\* the appends of lines 691-698 on the loaded document
Enqueue(matchmakingData, t) ==
  LET nm == IF HasRole(t[1], NM) /\ HasRole(t[2], NM)
            THEN Append(matchmakingData.pendingTeams.NM, t)
            ELSE matchmakingData.pendingTeams.NM
      nmpz == IF HasRole(t[1], NMPZ) /\ HasRole(t[2], NMPZ)
              THEN Append(matchmakingData.pendingTeams.NMPZ, t)
              ELSE matchmakingData.pendingTeams.NMPZ
  IN [matchmakingData EXCEPT !.pendingTeams = [NM |-> nm, NMPZ |-> nmpz]]

Mut_Always_Check(t) == TRUE

Check(t) ==
  \/ HasRole(t[1], NM) /\ HasRole(t[2], NM)
  \/ HasRole(t[1], NMPZ) /\ HasRole(t[2], NMPZ)

\* lines 685-724: load, enqueue; a team with no common role is written back
\* unchanged, its button reverts and the handler returns
ReadyLoad(t) ==
  /\ scan[t].pc = "load"
  /\ IF Check(t)
     THEN /\ scan' = [scan EXCEPT ![t] = [@ EXCEPT !.pc = "write",
                                             !.matchmakingData = Enqueue(mmFile, t)]]
          /\ UNCHANGED <<mmFile, button>>
     ELSE /\ mmFile' = Enqueue(mmFile, t)
          /\ button' = [button EXCEPT ![t] = "READY"]
          /\ scan' = [scan EXCEPT ![t] = IdleScan]
  /\ UNCHANGED <<inscTeams, user_in_match, unready, ing, startClock, events, lim, sc,
                 closedMatches>>

Mut_Reread_ReadyWrite(t) ==
  /\ scan[t].pc = "write"
  /\ mmFile' = Enqueue(mmFile, t)
  /\ scan' = [scan EXCEPT ![t] = [@ EXCEPT !.pc = "scan"]]
  /\ UNCHANGED <<inscTeams, user_in_match, button, unready, ing, startClock, events,
                 lim, sc, closedMatches>>

\* line 699: write_json(matchmakingData)
ReadyWrite(t) ==
  /\ scan[t].pc = "write"
  /\ mmFile' = scan[t].matchmakingData
  /\ scan' = [scan EXCEPT ![t] = [@ EXCEPT !.pc = "scan"]]
  /\ UNCHANGED <<inscTeams, user_in_match, button, unready, ing, startClock, events,
                 lim, sc, closedMatches>>

\* lines 726-756: the first watch_for_matches and the head of the loop; an
\* exception of the scorer ends the handler
ReadyScan(t) ==
  /\ scan[t].pc = "scan"
  /\ \E r \in {watch_for_matches(scan[t].matchmakingData, inscTeams)} :
       scan' = [scan EXCEPT ![t] = IF r.exc # "" THEN IdleScan ELSE LoopHead(@, r.val)]
  /\ UNCHANGED <<mmFile, inscTeams, user_in_match, button, unready, ing, startClock,
                 events, lim, sc, closedMatches>>

\* line 758: the wait ends with asyncio.TimeoutError, the best candidate is popped
WaitTimeout(t) ==
  /\ scan[t].pc = "wait"
  /\ LET avail == scan[t].availableTeamsPairsScores
     IN scan' = [scan EXCEPT ![t] = [@ EXCEPT !.pc = "popped", !.match = Head(avail),
                                               !.availableTeamsPairsScores = Tail(avail)]]
  /\ UNCHANGED <<mmFile, inscTeams, user_in_match, button, unready, ing, startClock,
                 events, lim, sc, closedMatches>>

\* wait_for returned an event: line 789 writes the handler's document, and the
\* loop goes round with the list it had
WokenWrite(t) ==
  /\ scan[t].pc = "woken"
  /\ mmFile' = scan[t].matchmakingData
  /\ scan' = [scan EXCEPT ![t] = LoopHead(@, scan[t].availableTeamsPairsScores)]
  /\ UNCHANGED <<inscTeams, user_in_match, button, unready, ing, startClock, events,
                 lim, sc, closedMatches>>

\* lines 763-772: the registry check of the popped candidate
CommitCheck(t) ==
  /\ scan[t].pc = "popped"
  /\ LET allIds == AllIds(scan[t].match)
     IN scan' = [scan EXCEPT ![t] =
                   [@ EXCEPT !.pc = IF \E k \in 1..4 : InRegistry(user_in_match, allIds[k])
                                    THEN "rescan" ELSE "extend"]]
  /\ UNCHANGED <<mmFile, inscTeams, user_in_match, button, unready, ing, startClock,
                 events, lim, sc, closedMatches>>

\* lines 773-780: user_in_match.extend(...), then create_match starts
RegistryExtend(t) ==
  /\ scan[t].pc = "extend"
  /\ user_in_match' = Extend(user_in_match, AllIds(scan[t].match))
  /\ scan' = [scan EXCEPT ![t] = [@ EXCEPT !.pc = "create"]]
  /\ UNCHANGED <<mmFile, inscTeams, button, unready, ing, startClock, events, lim, sc,
                 closedMatches>>

\* lines 785-789 after a commit or a skip: r is watch_for_matches on the
\* handler's document, then write_json of that document; an exception of the
\* scorer ends the handler before the write
Rescan(h, matchmakingData, r) ==
  IF r.exc # "" THEN IdleScan
  ELSE LoopHead([h EXCEPT !.matchmakingData = matchmakingData, !.match = <<>>], r.val)

Mut_RecordsGamemode_CreateMatch(t) ==
  /\ scan[t].pc = "create"
  /\ \E md \in {create_match(scan[t].match, scan[t].matchmakingData,
                              AllIds(scan[t].match), startClock + 1)} :
       \E r \in {watch_for_matches(md, inscTeams)} :
         /\ scan' = [scan EXCEPT ![t] = Rescan(@, md, r)]
         /\ mmFile' = IF r.exc # "" THEN mmFile ELSE md
  /\ startClock' = startClock + 1
  /\ inscTeams' = [inscTeams EXCEPT
                     ![scan[t].match[1][1]].lastGamemode = scan[t].match[3],
                     ![scan[t].match[1][2]].lastGamemode = scan[t].match[3]]
  /\ UNCHANGED <<user_in_match, button, unready, ing, events, lim, sc, closedMatches>>

\* hellcup.create_match returns: the match is in the handler's document, which
\* line 789 writes after the rescan
CreateMatch(t) ==
  /\ scan[t].pc = "create"
  /\ \E md \in {create_match(scan[t].match, scan[t].matchmakingData,
                              AllIds(scan[t].match), startClock + 1)} :
       \E r \in {watch_for_matches(md, inscTeams)} :
         /\ scan' = [scan EXCEPT ![t] = Rescan(@, md, r)]
         /\ mmFile' = IF r.exc # "" THEN mmFile ELSE md
  /\ startClock' = startClock + 1
  /\ UNCHANGED <<inscTeams, user_in_match, button, unready, ing, events, lim, sc,
                 closedMatches>>

\* a send of create_match (lines 747-764) raises: the handler ends with the
\* players registered and no match recorded
CreateMatchSendFails(t) ==
  /\ scan[t].pc = "create"
  /\ scan' = [scan EXCEPT ![t] = IdleScan]
  /\ UNCHANGED <<mmFile, inscTeams, user_in_match, button, unready, ing, startClock,
                 events, lim, sc, closedMatches>>

\* the candidate is skipped: rescan of the handler's document and write
SkipRescan(t) ==
  /\ scan[t].pc = "rescan"
  /\ \E r \in {watch_for_matches(scan[t].matchmakingData, inscTeams)} :
       /\ scan' = [scan EXCEPT ![t] = Rescan(@, @.matchmakingData, r)]
       /\ mmFile' = IF r.exc # "" THEN mmFile ELSE scan[t].matchmakingData
  /\ UNCHANGED <<inscTeams, user_in_match, button, unready, ing, startClock, events,
                 lim, sc, closedMatches>>

\* --------------------------------------------------------------------------
\* Un-ready toggle (bot.on_interaction, lines 793-804)
\* --------------------------------------------------------------------------

\* click on a button that does not read "Find a Match": it turns back to it
ClickUnready(t) ==
  /\ t \in lim.teams
  /\ button[t] = "WAITING"
  /\ ~unready[t]
  /\ InFlight < lim.slots
  /\ events < lim.events
  /\ button' = [button EXCEPT ![t] = "READY"]
  /\ unready' = [unready EXCEPT ![t] = TRUE]
  /\ scan' = Dispatch(scan)
  /\ events' = events + 1
  /\ UNCHANGED <<mmFile, inscTeams, user_in_match, ing, startClock, lim, sc,
                 closedMatches>>

\* try: NMPZ.remove(teamName); NM.remove(teamName) except: pass
UnreadyRemove(matchmakingData, t) ==
  IF t \notin Range(matchmakingData.pendingTeams.NMPZ)
  THEN matchmakingData
  ELSE LET nmpz == Remove(matchmakingData.pendingTeams.NMPZ, t)
           nm == RemoveIfIn(matchmakingData.pendingTeams.NM, t)
       IN [matchmakingData EXCEPT !.pendingTeams = [NM |-> nm, NMPZ |-> nmpz]]

\* lines 798-804: load, remove, write
UnreadyUpdate(t) ==
  /\ unready[t]
  /\ mmFile' = UnreadyRemove(mmFile, t)
  /\ unready' = [unready EXCEPT ![t] = FALSE]
  /\ UNCHANGED <<inscTeams, user_in_match, button, scan, ing, startClock, events, lim,
                 sc, closedMatches>>

\* --------------------------------------------------------------------------
\* Result ingestion (bot.on_message, summary-links channel; hellcup.process_duel_link)
\* --------------------------------------------------------------------------

\* the players whose links the run posts
Reporters == {1, 5}

\* for idTemp in match["usersIds"]: try: user_in_match.remove(str(idTemp))
RECURSIVE Release(_, _)
Release(registry, ids) ==
  IF ids = <<>> THEN registry
  ELSE Release([registry EXCEPT ![Head(ids)] = IF @ > 0 THEN @ - 1 ELSE 0], Tail(ids))

Mut_Swallow_process_duel_link(idTemp, match, matchmakingData) ==
  IF match = NoMatch
  THEN [exc |-> "", matchmakingData |-> matchmakingData,
        winningTeam |-> <<>>, otherTeam |-> <<>>]
  ELSE [exc |-> "",
        matchmakingData |-> [matchmakingData EXCEPT
           !.currentMatches = RemoveIfIn(matchmakingData.currentMatches, match)],
        winningTeam |-> match.teams[2], otherTeam |-> match.teams[1]]

\* hellcup.process_duel_link from line 996 on, for a resolved match: the match
\* leaves the handler's document, the first winning player is looked up among the
\* match's four geoguessr ids and its position decides the two teams
process_duel_link(idTemp, match, matchmakingData) ==
  IF match = NoMatch
  THEN \* return (None, None)
       [exc |-> "", matchmakingData |-> matchmakingData,
        winningTeam |-> <<>>, otherTeam |-> <<>>]
  ELSE IF match \notin Range(matchmakingData.currentMatches)
  THEN [exc |-> "ValueError", matchmakingData |-> matchmakingData,
        winningTeam |-> <<>>, otherTeam |-> <<>>]
  ELSE LET md == [matchmakingData EXCEPT
                    !.currentMatches = Remove(matchmakingData.currentMatches, match)]
           winningPlayerId == PlayerData(WinningPlayer(idTemp)).geoguessrId
           ggIds == [k \in 1..Len(match.usersIds) |->
                       PlayerData(match.usersIds[k]).geoguessrId]
       IN IF winningPlayerId \notin Range(ggIds)
          THEN [exc |-> "ValueError", matchmakingData |-> md,
                winningTeam |-> <<>>, otherTeam |-> <<>>]
          ELSE [exc |-> "", matchmakingData |-> md,
                winningTeam |-> IF Index(ggIds, winningPlayerId) > 2
                                THEN match.teams[1] ELSE match.teams[2],
                otherTeam |-> IF Index(ggIds, winningPlayerId) <= 2
                              THEN match.teams[1] ELSE match.teams[2]]

Mut_NoOpponent_ApplyResult(inscriptionData, duelId, match, winningTeam, loosingTeam) ==
  IF duelId \in Range(inscriptionData[winningTeam].previousDuelIds)
  THEN inscriptionData
  ELSE [inscriptionData EXCEPT
          ![winningTeam] = [score |-> Append(@.score, "1"),
                            previousOpponents |-> Append(@.previousOpponents, loosingTeam),
                            previousDuelIds |-> Append(@.previousDuelIds, duelId),
                            lastGamemode |-> match.matchType],
          ![loosingTeam] = [score |-> Append(@.score, "0"),
                            previousOpponents |-> @.previousOpponents,
                            previousDuelIds |-> Append(@.previousDuelIds, duelId),
                            lastGamemode |-> match.matchType]]

\* bot.on_message lines 1013-1030: the idempotency guard and the appends
ApplyResult(inscriptionData, duelId, match, winningTeam, loosingTeam) ==
  IF duelId \in Range(inscriptionData[winningTeam].previousDuelIds)
  THEN inscriptionData
  ELSE [inscriptionData EXCEPT
          ![winningTeam] = [score |-> Append(@.score, "1"),
                            previousOpponents |-> Append(@.previousOpponents, loosingTeam),
                            previousDuelIds |-> Append(@.previousDuelIds, duelId),
                            lastGamemode |-> match.matchType],
          ![loosingTeam] = [score |-> Append(@.score, "0"),
                            previousOpponents |-> Append(@.previousOpponents, winningTeam),
                            previousDuelIds |-> Append(@.previousDuelIds, duelId),
                            lastGamemode |-> match.matchType]]

\* a message with a duel link arrives in the summary channel
PostLink(i, author) ==
  /\ i \in lim.ings
  /\ ing[i].pc = "idle"
  /\ \A j \in IngIds : j < i => ing[j].pc # "idle"
  /\ events < lim.events
  /\ InFlight < lim.slots
  /\ ing' = [ing EXCEPT ![i] = [IdleIng EXCEPT !.pc = "find", !.author = author]]
  /\ events' = events + 1
  /\ UNCHANGED <<mmFile, inscTeams, user_in_match, button, scan, unready, startClock,
                 lim, sc, closedMatches>>

\* lines 991-1001: the match of the author is resolved on the file; with one
\* its players leave the registry; without one the handler goes on with no match
IngFind(i) ==
  /\ ing[i].pc = "find"
  /\ LET match == find_match_with_user_id(mmFile, ing[i].author)
     IN /\ ing' = [ing EXCEPT ![i] = [@ EXCEPT !.pc = "loadmm", !.match = match]]
        /\ user_in_match' = IF match = NoMatch THEN user_in_match
                            ELSE Release(user_in_match, match.usersIds)
  /\ UNCHANGED <<mmFile, inscTeams, button, scan, unready, startClock, events, lim, sc,
                 closedMatches>>

\* lines 1003-1005: the duel id of the message, load_json("matchmaking.json")
IngLoadMM(i, duelId) ==
  /\ ing[i].pc = "loadmm"
  /\ ing' = [ing EXCEPT ![i] = [@ EXCEPT !.pc = "fetch", !.duelId = duelId,
                                         !.matchmakingData = mmFile]]
  /\ UNCHANGED <<mmFile, inscTeams, user_in_match, button, scan, unready, startClock,
                 events, lim, sc, closedMatches>>

\* process_duel_link returns (an exception of lines 997-1017 ends the handler);
\* without a match the handler ends at line 1010, with one line 1011 loads
\* inscriptions.json and close_match starts
IngProcess(i) ==
  /\ ing[i].pc = "fetch"
  /\ LET r == process_duel_link(ing[i].duelId, ing[i].match, ing[i].matchmakingData)
     IN ing' = [ing EXCEPT ![i] =
                  IF r.exc # "" \/ ing[i].match = NoMatch THEN IdleIng
                  ELSE [@ EXCEPT !.pc = "closing", !.matchmakingData = r.matchmakingData,
                                 !.winningTeam = r.winningTeam,
                                 !.loosingTeam = r.otherTeam,
                                 !.inscriptionData = inscTeams]]
  /\ UNCHANGED <<mmFile, inscTeams, user_in_match, button, scan, unready, startClock,
                 events, lim, sc, closedMatches>>

\* the duel fetch or gu.add_duels_infos (line 995, not guarded) raises: the
\* handler ends
IngProcessFails(i) ==
  /\ ing[i].pc = "fetch"
  /\ ing' = [ing EXCEPT ![i] = IdleIng]
  /\ UNCHANGED <<mmFile, inscTeams, user_in_match, button, scan, unready, startClock,
                 events, lim, sc, closedMatches>>

\* hellcup.close_match returned (both buttons back on "Find a Match"), then
\* lines 1013-1041: guard, appends, write_json(inscriptionData)
IngCloseOk(i) ==
  /\ ing[i].pc = "closing"
  /\ button' = [button EXCEPT ![ing[i].match.team1] = "READY",
                              ![ing[i].match.team2] = "READY"]
  /\ inscTeams' = ApplyResult(ing[i].inscriptionData, ing[i].duelId, ing[i].match,
                              ing[i].winningTeam, ing[i].loosingTeam)
  /\ ing' = [ing EXCEPT ![i] = [@ EXCEPT !.pc = "writemm"]]
  /\ UNCHANGED <<mmFile, user_in_match, scan, unready, startClock, events, lim, sc,
                 closedMatches>>

\* hellcup.close_match raises (lines 795-802: the channel lookups take the
\* un-awaited find_channel_id_for_team coroutine and yield no channel to purge; a
\* purge or a button update can fail as well): the handler ends before any write
IngCloseFails(i) ==
  /\ ing[i].pc = "closing"
  /\ ing' = [ing EXCEPT ![i] = IdleIng]
  /\ UNCHANGED <<mmFile, inscTeams, user_in_match, button, scan, unready, startClock,
                 events, lim, sc, closedMatches>>

\* line 1042: write_json(matchmakingData); the match is closed when this write
\* takes it out of the file
IngWriteMM(i) ==
  /\ ing[i].pc = "writemm"
  /\ mmFile' = ing[i].matchmakingData
  /\ closedMatches' =
       IF /\ ing[i].match \in Range(mmFile.currentMatches)
          /\ ing[i].match \notin Range(ing[i].matchmakingData.currentMatches)
       THEN closedMatches \cup {ing[i].match}
       ELSE closedMatches
  /\ ing' = [ing EXCEPT ![i] = IdleIng]
  /\ UNCHANGED <<inscTeams, user_in_match, button, scan, unready, startClock, events,
                 lim, sc>>

\* --------------------------------------------------------------------------
\* End-of-tournament reset (hellcup.reset_insc)
\* --------------------------------------------------------------------------

\* load, clear every team's four attributes, write
reset_insc ==
  /\ InFlight < lim.slots
  /\ events < lim.events
  /\ inscTeams' = [t \in Teams |-> NewTeamData]
  /\ events' = events + 1
  /\ UNCHANGED <<mmFile, user_in_match, button, scan, unready, ing, startClock, lim,
                 sc, closedMatches>>

\* --------------------------------------------------------------------------
\* Specification of the handlers
\* --------------------------------------------------------------------------

ToggleStep(t) ==
  \/ ClickReady(t)
  \/ ReadyLoad(t)
  \/ ReadyWrite(t)
  \/ ReadyScan(t)
  \/ WaitTimeout(t)
  \/ CommitCheck(t)
  \/ RegistryExtend(t)
  \/ CreateMatch(t)
  \/ CreateMatchSendFails(t)
  \/ SkipRescan(t)
  \/ ClickUnready(t)
  \/ UnreadyUpdate(t)

IngestStep(i) ==
  \/ \E author \in Reporters : PostLink(i, author)
  \/ IngFind(i)
  \/ \E duelId \in DuelIds : IngLoadMM(i, duelId)
  \/ IngProcess(i)
  \/ IngProcessFails(i)
  \/ IngCloseOk(i)
  \/ IngCloseFails(i)
  \/ IngWriteMM(i)

\* one handler at a time: no click arrives while a scan waits
NextSeq ==
  \/ \E t \in Teams : ToggleStep(t)
  \/ \E i \in IngIds : IngestStep(i)
  \/ reset_insc

Next ==
  \/ NextSeq
  \/ \E t \in Teams : WokenWrite(t)

Spec == Init /\ [][Next]_vars

SpecRace == InitRace /\ [][Next]_vars

SpecSeq == InitSeq /\ [][NextSeq]_vars

SpecIngest == InitIngest /\ [][Next]_vars

\* the steps a ready handler takes by itself once it was started: the event loop
\* resumes a handler whose await has completed, and a debounce wait that no event
\* ends is ended by its timeout
ScanStep(t) ==
  \/ ReadyLoad(t)
  \/ ReadyWrite(t)
  \/ ReadyScan(t)
  \/ WaitTimeout(t)
  \/ CommitCheck(t)
  \/ RegistryExtend(t)
  \/ CreateMatch(t)
  \/ CreateMatchSendFails(t)
  \/ SkipRescan(t)

\* one handler at a time, every started ready handler keeps being resumed
SpecSeqFair == InitSeq /\ [][NextSeq]_vars /\ \A t \in Teams : WF_vars(ScanStep(t))

\* --------------------------------------------------------------------------
\* Specification of the scorer alone: get_duel_score on drawn team records
\* --------------------------------------------------------------------------

\* entries of previousOpponents drawn freely at the recent end of a history
MaxRecent == 2

\* older entries (duels against a third team) in front of the recent ones
PadLens == {0, 3, 4}

ThirdTeam == <<9, 10>>

RECURSIVE SeqsUpTo(_, _)
SeqsUpTo(S, n) ==
  IF n = 0 THEN {<<>>}
  ELSE LET shorter == SeqsUpTo(S, n - 1)
       IN shorter \cup {Append(q, x) : q \in {r \in shorter : Len(r) = n - 1}, x \in S}

Repeat(x, n) == [i \in 1..n |-> x]

\* a team record of inscriptions.json: its three lists have one entry per duel
ScorerTeam(ids, pro, flags, pad, recent, outcome, last) ==
  [teamName |-> ids,
   member1 |-> [discordId |-> ids[1], isPro |-> pro[1], flag |-> flags[1]],
   member2 |-> [discordId |-> ids[2], isPro |-> pro[2], flag |-> flags[2]],
   score |-> Repeat(outcome, pad + Len(recent)),
   previousOpponents |-> Repeat(ThirdTeam, pad) \o recent,
   previousDuelIds |-> [i \in 1..(pad + Len(recent)) |-> i],
   lastGamemode |-> last]

ProChoices == {<<FALSE, FALSE>>, <<TRUE, FALSE>>, <<FALSE, TRUE>>}

FlagChoices == {<<"fr", "fr">>, <<"fr", "de">>, <<"de", "de">>}

\* the second team: disjoint from the first, sharing a player, the same pair
Team2Ids == {<<3, 4>>, <<2, 3>>, <<1, 2>>}

ScorerCall(team1, team2, gamemode) ==
  [state |-> "args", team1 |-> team1, team2 |-> team2, gamemode |-> gamemode,
   fwd |-> Return(0), bwd |-> Return(0)]

\* eligible pairs with every drawn history
HistoryCalls ==
  {ScorerCall(ScorerTeam(T1, <<TRUE, FALSE>>, <<"fr", "de">>, p1, r1, o1, l1),
              ScorerTeam(T2, <<FALSE, FALSE>>, <<"fr", "fr">>, p2, r2, o2, l2), g) :
     p1 \in PadLens, p2 \in PadLens,
     r1 \in SeqsUpTo({T2, ThirdTeam}, MaxRecent), r2 \in SeqsUpTo({T1, ThirdTeam}, MaxRecent),
     o1 \in {"0", "1"}, o2 \in {"0", "1"},
     l1 \in {None, NM}, l2 \in {None, NM}, g \in {NM, NMPZ}}

\* every combination of pro flags, country flags and shared players, with short
\* and long histories
GateCalls(ids2) ==
  {ScorerCall(ScorerTeam(T1, pro1, f1, p1, r1, "1", l1),
              ScorerTeam(ids2, pro2, f2, p2, r2, "0", l2), g) :
     pro1 \in ProChoices, pro2 \in ProChoices, f1 \in FlagChoices, f2 \in FlagChoices,
     p1 \in {0, 4}, p2 \in {0, 4},
     r1 \in SeqsUpTo({ids2}, 1), r2 \in SeqsUpTo({T1}, 1),
     l1 \in {None, NM}, l2 \in {None, NM}, g \in {NM, NMPZ}}

\* entries of previousOpponents that follow the last duel against the other team
MaxAfter == 5

\* a team record whose last duel against `other` is followed by `after` duels
\* against a third team
ScorerTeamAfter(ids, pro, flags, other, after, outcome, last) ==
  [teamName |-> ids,
   member1 |-> [discordId |-> ids[1], isPro |-> pro[1], flag |-> flags[1]],
   member2 |-> [discordId |-> ids[2], isPro |-> pro[2], flag |-> flags[2]],
   score |-> Repeat(outcome, after + 1),
   previousOpponents |-> <<other>> \o Repeat(ThirdTeam, after),
   previousDuelIds |-> [i \in 1..(after + 1) |-> i],
   lastGamemode |-> last]

\* eligible pairs where the duel against the other team is 0..MaxAfter entries old
AgedCalls ==
  {ScorerCall(ScorerTeamAfter(T1, <<TRUE, FALSE>>, <<"fr", "de">>, T2, n1, o1, l1),
              ScorerTeam(T2, <<FALSE, FALSE>>, <<"fr", "fr">>, p2, r2, "0", l2), g) :
     n1 \in 0..MaxAfter, p2 \in {0, 4}, r2 \in SeqsUpTo({T1}, 1),
     o1 \in {"0", "1"}, l1 \in {None, NM}, l2 \in {None, NM}, g \in {NM, NMPZ}}

InitScore ==
  /\ Start
  /\ lim = [slots |-> 0, events |-> 0, teams |-> {}, ings |-> {}]
  /\ \/ sc \in HistoryCalls
     \/ \E ids2 \in Team2Ids : sc \in GateCalls(ids2)
     \/ sc \in AgedCalls

\* the scorer is applied to the drawn pair, in both orders
ScoreCall ==
  /\ sc.state = "args"
  /\ sc' = [sc EXCEPT !.state = "scored",
                      !.fwd = get_duel_score(sc.team1, sc.team2, sc.gamemode),
                      !.bwd = get_duel_score(sc.team2, sc.team1, sc.gamemode)]
  /\ UNCHANGED <<mmFile, inscTeams, user_in_match, button, scan, unready, ing,
                 startClock, events, lim, closedMatches>>

NextScore == ScoreCall

SpecScore == InitScore /\ [][NextScore]_vars

\* --------------------------------------------------------------------------
\* Specification of the loop head alone: lines 732-759 on drawn rankings
\* --------------------------------------------------------------------------

\* the best score of a drawn ranking, in hundredths (watch_for_matches keeps
\* scores above 0 only)
MaxScore == 100

\* the scores of the candidates behind the best one
LowerScores == {0, 18}

\* a ranking as watch_for_matches returns it: best first
Rankings ==
  {<<(<<(<<T1, T2>>), best, g>>)>> : best \in 1..MaxScore, g \in {NM, NMPZ}}
  \cup {r \in {<<(<<(<<T1, T2>>), best, g>>), (<<(<<T1, T3>>), low, NMPZ>>)>> :
                   best \in 1..MaxScore, g \in {NM, NMPZ}, low \in LowerScores} :
          0 < r[2][2] /\ r[2][2] <= r[1][2]}

InitLoop ==
  /\ Start
  /\ lim = [slots |-> 0, events |-> 0, teams |-> {}, ings |-> {}]
  /\ sc \in {[state |-> "ranked", availableTeamsPairsScores |-> r, h |-> IdleScan] :
               r \in Rankings}

\* the scan enters the while loop with the drawn ranking
LoopEnter ==
  /\ sc.state = "ranked"
  /\ sc' = [sc EXCEPT !.state = "looped",
                      !.h = LoopHead([IdleScan EXCEPT !.pc = "scan"],
                                     sc.availableTeamsPairsScores)]
  /\ UNCHANGED <<mmFile, inscTeams, user_in_match, button, scan, unready, ing,
                 startClock, events, lim, closedMatches>>

NextLoop == LoopEnter

SpecLoop == InitLoop /\ [][NextLoop]_vars

\* --------------------------------------------------------------------------
\* Specification of the scan alone: hellcup.watch_for_matches on drawn queues
\* and histories, followed by the loop head
\* --------------------------------------------------------------------------

\* entries of the NM pending list; the NMPZ list holds one entry less (a key
\* can be queued twice, and the members' roles can change after their team was
\* queued)
MaxQueued == 3

\* the teams drawn into the NMPZ list, and the teams 1_2 may have met
PlayedTeams == {T2, T3}

\* inscriptions.json after team 1_2 has won one duel against each team of S,
\* in the order 3_4, 5_6, the duel against t in the gamemode g[t]
RankTeams(S, g) ==
  LET opponents == SelectSeq(<<T2, T3>>, LAMBDA t : t \in S)
      duelId(t) == IF t = T2 THEN "d1" ELSE "d2"
  IN [t \in Teams |->
        IF t = T1 /\ S # {}
        THEN [score |-> Repeat("1", Len(opponents)), previousOpponents |-> opponents,
              previousDuelIds |-> [k \in 1..Len(opponents) |-> duelId(opponents[k])],
              lastGamemode |-> g[opponents[Len(opponents)]]]
        ELSE IF t \in S
        THEN [score |-> <<"0">>, previousOpponents |-> <<T1>>,
              previousDuelIds |-> <<duelId(t)>>, lastGamemode |-> g[t]]
        ELSE NewTeamData]

InitRank ==
  /\ Start
  /\ lim = [slots |-> 0, events |-> 0, teams |-> {}, ings |-> {}]
  /\ \E nm \in SeqsUpTo(Teams, MaxQueued),
        nmpz \in SeqsUpTo({T1} \cup PlayedTeams, MaxQueued - 1),
        S \in SUBSET PlayedTeams :
       \E g \in [S -> {NM, NMPZ}] :
       sc = [state |-> "drawn",
             matchmakingData |-> [pendingTeams |-> [NM |-> nm, NMPZ |-> nmpz],
                                  currentMatches |-> <<>>],
             inscriptionData |-> RankTeams(S, g),
             result |-> [exc |-> "", val |-> <<>>],
             h |-> IdleScan]

\* the scan of bot.py 726-756: watch_for_matches, then the head of the loop
WatchCall ==
  /\ sc.state = "drawn"
  /\ \E r \in {watch_for_matches(sc.matchmakingData, sc.inscriptionData)} :
       sc' = [sc EXCEPT !.state = "watched", !.result = r,
                        !.h = IF r.exc # "" THEN IdleScan
                              ELSE LoopHead([IdleScan EXCEPT
                                               !.pc = "scan",
                                               !.matchmakingData = sc.matchmakingData],
                                            r.val)]
  /\ UNCHANGED <<mmFile, inscTeams, user_in_match, button, scan, unready, ing,
                 startClock, events, lim, closedMatches>>

NextRank == WatchCall

SpecRank == InitRank /\ [][NextRank]_vars

\* --------------------------------------------------------------------------
\* Properties of the scorer
\* --------------------------------------------------------------------------

SharePlayer(a, b) ==
  {a.member1.discordId, a.member2.discordId}
    \cap {b.member1.discordId, b.member2.discordId} # {}

NonePro(a, b) ==
  ~(a.member1.isPro \/ a.member2.isPro \/ b.member1.isPro \/ b.member2.isPro)

AllFlagsEqual(a, b) ==
  /\ a.member1.flag = a.member2.flag
  /\ a.member2.flag = b.member1.flag
  /\ b.member1.flag = b.member2.flag

PassesGate(a, b) == ~SharePlayer(a, b) /\ ~NonePro(a, b) /\ ~AllFlagsEqual(a, b)

\* position (1-based) of the most recent occurrence of x in s
LastOccurrence(s, x) ==
  CHOOSE i \in 1..Len(s) : s[i] = x /\ \A j \in (i + 1)..Len(s) : s[j] # x

\* nov(X, Y) in hundredths: 0.5 when Y is not in X's previousOpponents, otherwise
\* min(0.1 * (k + 1), 0.5), k the number of entries after Y's last occurrence
Nov(X, Y) ==
  IF Y.teamName \notin Range(X.previousOpponents) THEN 50
  ELSE LET k == Len(X.previousOpponents) - LastOccurrence(X.previousOpponents, Y.teamName)
       IN Min(10 * (k + 1), 50)

SameModePenalties(a, b, g) ==
  (IF a.lastGamemode = g THEN 1 ELSE 0) + (IF b.lastGamemode = g THEN 1 ELSE 0)

Wins(team) == Cardinality({i \in 1..Len(team.score) : team.score[i] = "1"})

\* C7: the scorer is symmetric: get_duel_score(A, B, gamemode) and
\* get_duel_score(B, A, gamemode) give the same result for every drawn pair and
\* gamemode, also when only one team lists the other in previousOpponents.
C7_ScorerSymmetric == sc.state = "scored" => sc.fwd = sc.bwd

\* a scored eligible pair where only team1 lists team2 and only team1 last played
\* the candidate gamemode
C7_Witness ==
  /\ sc.state = "scored"
  /\ PassesGate(sc.team1, sc.team2)
  /\ sc.team2.teamName \in Range(sc.team1.previousOpponents)
  /\ sc.team1.teamName \notin Range(sc.team2.previousOpponents)
  /\ sc.team1.lastGamemode = sc.gamemode
  /\ sc.team2.lastGamemode # sc.gamemode
  /\ sc.fwd.exc = ""
  /\ sc.fwd.val > 0
  /\ sc.fwd = sc.bwd

\* C8: eligibility gate: the scorer returns 0 whenever the two teams share a
\* player id, or none of the four players is pro, or the four flags are all
\* equal, whatever the histories, the lastGamemode values and the gamemode.
C8_EligibilityGate ==
  (sc.state = "scored"
   /\ (SharePlayer(sc.team1, sc.team2) \/ NonePro(sc.team1, sc.team2)
       \/ AllFlagsEqual(sc.team1, sc.team2)))
  => sc.fwd = Return(0) /\ sc.bwd = Return(0)

\* a scored pair with a pro and two flags that shares exactly one player, and
\* whose histories are long enough for the skill term
C8_Witness ==
  /\ sc.state = "scored"
  /\ SharePlayer(sc.team1, sc.team2)
  /\ sc.team1.teamName # sc.team2.teamName
  /\ ~NonePro(sc.team1, sc.team2)
  /\ ~AllFlagsEqual(sc.team1, sc.team2)
  /\ Len(sc.team1.score) >= 5
  /\ Len(sc.team2.score) >= 5
  /\ sc.fwd = Return(0)

C11_NoveltyMonotonic ==
  (sc.state = "scored" /\ PassesGate(sc.team1, sc.team2)
   /\ Len(sc.team2.score) < 5
   /\ sc.team2.teamName \in Range(sc.team1.previousOpponents))
  => LET A == sc.team1
         B == sc.team2
         mostRecent == [A EXCEPT !.previousOpponents = Append(@, B.teamName)]
         older == [A EXCEPT !.previousOpponents = Append(@, ThirdTeam)]
         never == [A EXCEPT !.previousOpponents = [i \in 1..Len(@) |-> ThirdTeam]]
         s(X) == get_duel_score(X, B, sc.gamemode)
     IN /\ sc.fwd.exc = ""
        /\ s(mostRecent).exc = "" /\ s(older).exc = "" /\ s(never).exc = ""
        /\ s(mostRecent).val <= sc.fwd.val
        /\ sc.fwd.val <= s(older).val
        /\ s(older).val <= s(never).val

\* a scored eligible pair whose last meeting is 5 entries old: the contribution
\* is at the cap, above the one of a most recent meeting
C11_Witness ==
  /\ sc.state = "scored"
  /\ PassesGate(sc.team1, sc.team2)
  /\ Len(sc.team2.score) < 5
  /\ sc.team1.previousOpponents = <<sc.team2.teamName>> \o Repeat(ThirdTeam, 5)
  /\ sc.team2.previousOpponents = <<>>
  /\ sc.team1.lastGamemode # sc.gamemode
  /\ sc.team2.lastGamemode # sc.gamemode
  /\ sc.fwd = Return(100)
  /\ get_duel_score([sc.team1 EXCEPT !.previousOpponents = Append(@, sc.team2.teamName)],
                    sc.team2, sc.gamemode) = Return(60)

\* C10: when both teams have at least 5 recorded outcomes ("1" for a win, "0" for
\* a loss) the scorer returns the score lowered by
\* 0.2 * |winsA/lenA - winsB/lenB|, and when a team has fewer than 5 outcomes no
\* skill penalty is applied.
C10_SkillPenalty ==
  (sc.state = "scored" /\ PassesGate(sc.team1, sc.team2))
  => LET A == sc.team1
         B == sc.team2
         base == Nov(A, B) + Nov(B, A) - SameModePenalties(A, B, sc.gamemode)
         lenA == Len(A.score)
         lenB == Len(B.score)
     IN IF lenA >= 5 /\ lenB >= 5
        THEN /\ sc.fwd.exc = ""
             /\ sc.fwd.val * (lenA * lenB)
                = base * (lenA * lenB) - 20 * Abs(Wins(A) * lenB - Wins(B) * lenA)
        ELSE sc.fwd = Return(base)

\* --------------------------------------------------------------------------
\* Properties of the handlers
\* --------------------------------------------------------------------------

\* C12: in each iteration of the debounce loop the scan takes the head of its
\* candidate list as best; the timeout it waits with is
\* min((1 - best.score) * 100, 60) seconds and is at least 5; when the timeout is
\* below 5 the scan goes to the commit decision for best without waiting; a wait
\* that times out goes to the commit decision for the head of the list it had.
C12_LoopIteration ==
  [][\A t \in Teams :
       LET old == scan[t]
           new == scan'[t]
           ranking == IF old.pc = "woken" THEN old.availableTeamsPairsScores
                      ELSE watch_for_matches(new.matchmakingData, inscTeams).val
           wanted(best) == IF 100 - best[2] <= 60 THEN 100 - best[2] ELSE 60
       IN /\ (new.pc = "wait" /\ old.pc # "wait")
             => /\ new.availableTeamsPairsScores = ranking
                /\ ranking # <<>>
                /\ new.timeout = wanted(Head(ranking))
                /\ new.timeout >= 5
          /\ (new.pc = "popped" /\ old.pc = "wait")
             => /\ new.match = Head(old.availableTeamsPairsScores)
                /\ new.availableTeamsPairsScores = Tail(old.availableTeamsPairsScores)
          /\ (new.pc = "popped" /\ old.pc \notin {"wait", "popped"})
             => /\ ranking # <<>>
                /\ new.match = Head(ranking)
                /\ new.availableTeamsPairsScores = Tail(ranking)
                /\ new.timeout = wanted(new.match)
                /\ new.timeout < 5]_vars

\* a scan waits for a rematch candidate (score below 0.4) with the capped timeout
C12_Witness ==
  \E t \in Teams :
    /\ scan[t].pc = "wait"
    /\ Head(scan[t].availableTeamsPairsScores)[2] < 40
    /\ scan[t].timeout = 60

C14_UnreadyPurgesBothLists ==
  [][\A t \in Teams :
       (unready[t] /\ ~unready'[t])
       => /\ t \notin Range(mmFile'.pendingTeams.NM)
          /\ t \notin Range(mmFile'.pendingTeams.NMPZ)]_vars

\* the player is in the usersIds of no match of the document
InNoMatch(matchmakingData, p) ==
  \A k \in 1..Len(matchmakingData.currentMatches) :
    p \notin Range(matchmakingData.currentMatches[k].usersIds)

C16_EveryScanTerminates ==
  \A t \in Teams : (scan[t].pc # "idle") ~> (scan[t].pc = "idle")

\* C17: a scan whose debounce wait was ended by a readiness-toggle event is
\* abandoned: its next step ends the handler; it does not take up its old
\* ranking, wait on it again or go on to create a match.
C17_WokenScanAbandoned ==
  [][\A t \in Teams : (scan[t].pc = "woken") => (scan'[t].pc \in {"woken", "idle"})]_vars

C19_CommitCreatesOneMatch ==
  [][\A t \in Teams :
       /\ (scan[t].pc = "extend" /\ scan'[t].pc # "extend")
            => user_in_match' = Extend(user_in_match, AllIds(scan[t].match))
       /\ (scan[t].pc = "create" /\ scan'[t].pc # "create")
            => /\ user_in_match' = user_in_match
               /\ Len(mmFile'.currentMatches) = Len(mmFile.currentMatches) + 1
               /\ SubSeq(mmFile'.currentMatches, 1, Len(mmFile.currentMatches))
                    = mmFile.currentMatches
               /\ LET m == mmFile'.currentMatches[Len(mmFile'.currentMatches)]
                  IN /\ m.teams = scan[t].match[1]
                     /\ m.matchType = scan[t].match[3]
                     /\ m.usersIds = AllIds(scan[t].match)]_vars

\* the number of entries of a team in a queue
Occurrences(l, x) == Cardinality({k \in 1..Len(l) : l[k] = x})

\* C20: the step that skips a candidate (one of its four players is in the
\* registry) creates no match, leaves the registry unchanged and leaves both
\* teams in exactly the persisted queues they were in.
C20_SkipChangesNothing ==
  [][\A t \in Teams :
       (scan[t].pc = "rescan" /\ scan'[t].pc # "rescan")
         => /\ Range(mmFile'.currentMatches) \subseteq Range(mmFile.currentMatches)
            /\ startClock' = startClock
            /\ user_in_match' = user_in_match
            /\ \A k \in 1..2 : \A mode \in {"NM", "NMPZ"} :
                 Occurrences(mmFile'.pendingTeams[mode], scan[t].match[1][k])
                   = Occurrences(mmFile.pendingTeams[mode], scan[t].match[1][k])]_vars

\* both members hold the role of the mode
BothHold(t, mode) == HasRole(t[1], mode) /\ HasRole(t[2], mode)

\* C21: a team whose members share neither the NM nor the NMPZ role is not
\* enqueued by its ready toggle: the step that handles the toggle leaves both
\* pending lists unchanged, ends the handler without a scan and puts the
\* team's button back on "Find a Match"; the team is in no pending list.
C21_IneligibleNotEnqueued ==
  [][\A t \in Teams :
       (~BothHold(t, NM) /\ ~BothHold(t, NMPZ))
         => /\ t \notin Range(mmFile'.pendingTeams.NM)
            /\ t \notin Range(mmFile'.pendingTeams.NMPZ)
            /\ (scan[t].pc = "load" /\ scan'[t].pc # "load")
                 => /\ mmFile'.pendingTeams = mmFile.pendingTeams
                    /\ scan'[t].pc = "idle"
                    /\ button'[t] = "READY"]_vars

\* the ready toggle of a team with no common role is being handled, while
\* other teams are queued
C21_Witness ==
  \E t \in Teams :
    /\ ~BothHold(t, NM) /\ ~BothHold(t, NMPZ)
    /\ scan[t].pc = "load"
    /\ button[t] = "WAITING"
    /\ mmFile.pendingTeams.NM # <<>>

C23_ReleasedBeforeFetch ==
  [][\A i \in IngIds :
       /\ (ing[i].pc = "find" /\ ing'[i].pc # "find" /\ ing'[i].match # NoMatch)
            => \A k \in 1..4 : ~InRegistry(user_in_match', ing'[i].match.usersIds[k])
       /\ (ing[i].pc \in {"loadmm", "fetch", "closing", "writemm"} /\ ing'[i] # ing[i])
            => user_in_match' = user_in_match]_vars

\* C24: registration is atomic with match creation: in every state each player
\* id of user_in_match is a participant of a match of the persisted
\* currentMatches.
C24_RegisteredIffMatched ==
  \A p \in Players :
    InRegistry(user_in_match, p)
      => \E k \in 1..Len(mmFile.currentMatches) :
           p \in Range(mmFile.currentMatches[k].usersIds)

\* C25: at each commit decision (the popped candidate is about to be tested
\* against the registry) the pending queues and current matches the scan
\* ranked and commits from are the persisted ones.
C25_FreshSnapshotAtCommit ==
  \A t \in Teams :
    scan[t].pc = "popped" => scan[t].matchmakingData = mmFile

\* C26: interleaved read-modify-write cycles lose updates: the write of a ready
\* toggle persists the writer's copy, so a queue entry that another handler
\* persisted after the writer loaded the file is absent after the write; a
\* state is reachable in which a completed enqueue is missing from the file.
C26_WriteDropsLaterEntries ==
  [][\A t \in Teams :
       (scan[t].pc = "write" /\ scan'[t].pc # "write")
         => \A u \in Teams \ {t} : \A mode \in {"NM", "NMPZ"} :
              (/\ u \in Range(mmFile.pendingTeams[mode])
               /\ u \notin Range(scan[t].matchmakingData.pendingTeams[mode]))
                => u \notin Range(mmFile'.pendingTeams[mode])]_vars

\* two eligible teams have both completed the write of their ready toggle, no
\* team was matched or un-readied, and one of them is in no persisted queue
C26_Witness ==
  \E t, u \in Teams :
    /\ t # u
    /\ startClock = 0
    /\ user_in_match = EmptyRegistry
    /\ \A v \in {t, u} :
         /\ BothHold(v, NM) \/ BothHold(v, NMPZ)
         /\ button[v] = "WAITING"
         /\ ~unready[v]
         /\ scan[v].pc \notin {"load", "write"}
    /\ \A v \in Teams : ~unready[v] /\ (v \notin {t, u} => button[v] = "READY")
    /\ u \in Range(mmFile.pendingTeams.NM) \cup Range(mmFile.pendingTeams.NMPZ)
    /\ t \notin Range(mmFile.pendingTeams.NM) \cup Range(mmFile.pendingTeams.NMPZ)

\* C27: collaborator failures do not block the lifecycle: the step that ends
\* create_match records the match in the persisted currentMatches; an
\* ingestion whose match is resolved and whose duel maps to the match goes on
\* to close the match; and the step that ends close_match updates both
\* histories and goes on to the write that removes the match.
C27_FailuresDoNotBlock ==
  [][/\ \A t \in Teams :
         (scan[t].pc = "create" /\ scan'[t] # scan[t])
           => \E k \in 1..Len(mmFile'.currentMatches) :
                /\ mmFile'.currentMatches[k].teams = scan[t].match[1]
                /\ mmFile'.currentMatches[k].startTime = startClock'
     /\ \A i \in IngIds :
         /\ (/\ ing[i].pc = "fetch" /\ ing'[i] # ing[i]
              /\ ing[i].match # NoMatch
              /\ process_duel_link(ing[i].duelId, ing[i].match,
                                   ing[i].matchmakingData).exc = "")
              => ing'[i].pc = "closing"
         /\ (ing[i].pc = "closing" /\ ing'[i] # ing[i])
              => /\ ing'[i].pc = "writemm"
                 /\ inscTeams' = ApplyResult(ing[i].inscriptionData, ing[i].duelId,
                                             ing[i].match, ing[i].winningTeam,
                                             ing[i].loosingTeam)]_vars

\* the first winning player of the duel is none of the four participants of
\* the match the ingestion resolved
UnmappedWinner(i) ==
  /\ ing[i].match # NoMatch
  /\ WinningPlayer(ing[i].duelId) \notin Range(ing[i].match.usersIds)

\* C28: when the duel's winning player is none of the four participants of the
\* resolved match, process_duel_link raises, the ingestion ends at that step,
\* and the step changes no team history and leaves the persisted
\* currentMatches as it was.
C28_UnmappedWinnerSurfaced ==
  [][\A i \in IngIds :
       (ing[i].pc = "fetch" /\ UnmappedWinner(i) /\ ing'[i] # ing[i])
         => /\ process_duel_link(ing[i].duelId, ing[i].match,
                                 ing[i].matchmakingData).exc # ""
            /\ ing'[i] = IdleIng
            /\ inscTeams' = inscTeams
            /\ mmFile' = mmFile]_vars

\* an ingestion has resolved a match that is in the persisted currentMatches
\* and is about to process a duel whose winner is not one of its players
C28_Witness ==
  \E i \in IngIds :
    /\ ing[i].pc = "fetch"
    /\ UnmappedWinner(i)
    /\ ing[i].match \in Range(mmFile.currentMatches)
    /\ ing[i].match \in Range(ing[i].matchmakingData.currentMatches)

\* C29: in every state a team key occurs at most once in the persisted NM
\* pending list and at most once in the persisted NMPZ pending list.
C29_AtMostOncePerMode ==
  \A t \in Teams :
    /\ Occurrences(mmFile.pendingTeams.NM, t) <= 1
    /\ Occurrences(mmFile.pendingTeams.NMPZ, t) <= 1

\* the candidates of a mode in enumeration order (index pairs i < j, by i then
\* by j), whatever their score
Enumerated(l, teams, mode) ==
  LET pairs == AvailableTeamsPairs(l)
  IN [k \in 1..Len(pairs) |->
        <<pairs[k],
          get_duel_score(TeamDict(teams, pairs[k][1]), TeamDict(teams, pairs[k][2]),
                         mode).val,
          mode>>]

\* C30: the list a scan returns holds, for each mode, exactly the pairs i < j of
\* that mode's queue whose score in the mode is above 0 (once per index pair),
\* tagged with the mode; scores never increase along the list; among equal
\* scores NM candidates come before NMPZ ones and the candidates of a mode keep
\* their enumeration order; the candidate the loop takes up is a maximum of the
\* list.
C30_RankedCandidates ==
  (sc.state = "watched" /\ sc.result.exc = "")
    => LET val == sc.result.val
           enumNM == Enumerated(sc.matchmakingData.pendingTeams.NM,
                                sc.inscriptionData, NM)
           enumNMPZ == Enumerated(sc.matchmakingData.pendingTeams.NMPZ,
                                  sc.inscriptionData, NMPZ)
           scores == {c[2] : c \in Range(val) \cup Range(enumNM) \cup Range(enumNMPZ)}
       IN /\ \A c \in Range(val) : c[3] \in {NM, NMPZ} /\ c[2] > 0
          /\ \A score \in scores \ {0} :
               /\ SelectSeq(val, LAMBDA c : c[3] = NM /\ c[2] = score)
                    = SelectSeq(enumNM, LAMBDA c : c[2] = score)
               /\ SelectSeq(val, LAMBDA c : c[3] = NMPZ /\ c[2] = score)
                    = SelectSeq(enumNMPZ, LAMBDA c : c[2] = score)
          /\ \A k1, k2 \in 1..Len(val) :
               k1 < k2 => /\ val[k1][2] >= val[k2][2]
                          /\ val[k1][2] = val[k2][2]
                               => ~(val[k1][3] = NMPZ /\ val[k2][3] = NM)
          /\ val # <<>>
               => LET best == IF sc.h.pc = "popped" THEN sc.h.match
                              ELSE Head(sc.h.availableTeamsPairsScores)
                  IN /\ sc.h.pc \in {"popped", "wait"}
                     /\ best = val[1]
                     /\ \A c \in Range(val) : best[2] >= c[2]

\* a returned list with two NM candidates of different scores, an NMPZ candidate
\* that ties with an NM one, and a queued pair that scored 0
C30_Witness ==
  /\ sc.state = "watched"
  /\ sc.result.exc = ""
  /\ LET val == sc.result.val
     IN /\ \E k1, k2 \in 1..Len(val) :
             val[k1][3] = NM /\ val[k2][3] = NM /\ val[k1][2] > val[k2][2]
        /\ \E k1, k2 \in 1..Len(val) :
             val[k1][3] = NM /\ val[k2][3] = NMPZ /\ val[k1][2] = val[k2][2]
        /\ Len(val) < Len(AvailableTeamsPairs(sc.matchmakingData.pendingTeams.NM))
                        + Len(AvailableTeamsPairs(sc.matchmakingData.pendingTeams.NMPZ))

\* C31: a second close of a match changes nothing that the first close has set:
\* a handler that resolves a match another handler has already resolved leaves
\* user_in_match as it is; a handler that applies a duel both teams of its match
\* have already recorded leaves the histories as they are; and the write of a
\* handler whose match an earlier ingestion has already taken out of
\* matchmaking.json leaves the set of active matches as it is.
C31_CloseTwiceAsOnce ==
  [][\A i, j \in IngIds :
       i # j =>
         /\ (/\ ing[j].pc = "find" /\ ing'[j].pc = "loadmm"
             /\ ing'[j].match # NoMatch
             /\ ing[i].match = ing'[j].match)
            => user_in_match' = user_in_match
         /\ (/\ ing[j].pc = "closing" /\ ing'[j].pc = "writemm"
             /\ ing[j].duelId \in Range(inscTeams[ing[j].match.team1].previousDuelIds)
             /\ ing[j].duelId \in Range(inscTeams[ing[j].match.team2].previousDuelIds))
            => inscTeams' = inscTeams
         /\ (/\ ing[j].pc = "writemm" /\ ing'[j].pc = "idle"
             /\ ing[j].match \in closedMatches)
            => Range(mmFile'.currentMatches) = Range(mmFile.currentMatches)]_vars

\* the list is kept or extended at its end by one entry
KeptOrAppended(old, new) ==
  \/ new = old
  \/ Len(new) = Len(old) + 1 /\ SubSeq(new, 1, Len(old)) = old

C33_ActiveTeamsNotQueued ==
  \A k \in 1..Len(mmFile.currentMatches) :
    \A t \in {mmFile.currentMatches[k].team1, mmFile.currentMatches[k].team2} :
      /\ t \notin Range(mmFile.pendingTeams.NM)
      /\ t \notin Range(mmFile.pendingTeams.NMPZ)

\* the team is in the persisted pending list of the gamemode
Searching(t, gamemode) ==
  IF gamemode = NM THEN t \in Range(mmFile.pendingTeams.NM)
  ELSE t \in Range(mmFile.pendingTeams.NMPZ)

\* C34: when a scan commits a match (create_match returns), both teams of the
\* match are in the persisted pending list of the match's gamemode; in
\* particular a scan that has waited in the debounce does not commit a team
\* whose entry has left the persisted queues meanwhile.
C34_CommitOnlySearchingTeams ==
  [][\A t \in Teams :
       (scan[t].pc = "create" /\ startClock' = startClock + 1)
       => /\ Searching(scan[t].match[1][1], scan[t].match[3])
          /\ Searching(scan[t].match[1][2], scan[t].match[3])]_vars

\* C35: a match leaves the persisted currentMatches only by the write of a result
\* ingestion that resolved this match; no other write of matchmaking.json
\* removes it.
C35_MatchKeptUntilResult ==
  [][\A m \in Range(mmFile.currentMatches) \ Range(mmFile'.currentMatches) :
       \E i \in IngIds :
         ing[i].pc = "writemm" /\ ing'[i].pc = "idle" /\ ing[i].match = m]_vars

\* C36: no candidate of a scan (in its list or popped) pairs a team with itself,
\* and no match, in a handler's document or persisted, has the same team on both
\* sides, also when a key occurs more than once in a pending list.
C36_NoSelfPairing ==
  /\ \A t \in Teams :
       /\ \A c \in Range(scan[t].availableTeamsPairsScores) : c[1][1] # c[1][2]
       /\ scan[t].match # <<>> => scan[t].match[1][1] # scan[t].match[1][2]
       /\ \A m \in Range(scan[t].matchmakingData.currentMatches) : m.team1 # m.team2
  /\ \A m \in Range(mmFile.currentMatches) : m.team1 # m.team2

\* a scan is about to create a match with a team whose key is twice in the NM
\* list the scan scored
C36_Witness ==
  /\ C36_NoSelfPairing
  /\ \E t \in Teams :
       /\ scan[t].pc = "create"
       /\ \E u \in {scan[t].match[1][1], scan[t].match[1][2]} :
            Occurrences(scan[t].matchmakingData.pendingTeams.NM, u) >= 2

\* C37: every score the scorer returns is at most 1.0 (100 hundredths), and the
\* debounce timeout of a returned score above 0 (the scores of a scan's
\* candidates) lies between 0 and 60 seconds.
C37_ScoreAndTimeoutBounded ==
  sc.state = "scored"
  => \A r \in {sc.fwd, sc.bwd} :
       r.exc = ""
       => /\ r.val <= 100
          /\ r.val > 0 => (Timeout(r.val) >= 0 /\ Timeout(r.val) <= 60)

\* the scorer returned a score above 0 and below 0.4: without the cap its timeout
\* would exceed 60 seconds
C37_Witness ==
  /\ sc.state = "scored"
  /\ sc.fwd.exc = ""
  /\ sc.fwd.val > 0
  /\ 100 - sc.fwd.val > 60
  /\ Timeout(sc.fwd.val) = 60

ReadyPair(a, b, gamemode) ==
  /\ a # b
  /\ Searching(a, gamemode)
  /\ Searching(b, gamemode)
  /\ get_duel_score(TeamDict(inscTeams, a), TeamDict(inscTeams, b), gamemode).val > 0
  /\ \A p \in {a[1], a[2], b[1], b[2]} : ~InRegistry(user_in_match, p)

\* C38: when two teams form such a pair and no further event arrives (the events
\* of the run are used up), then eventually the pair is no longer waiting: at
\* least one of the two has left the gamemode's queue, as a commit makes it.
C38_ReadyPairEventuallyMatched ==
  \A a, b \in Teams : \A gamemode \in {NM, NMPZ} :
    (ReadyPair(a, b, gamemode) /\ events = lim.events)
      ~> ~(Searching(a, gamemode) /\ Searching(b, gamemode))

\* C1: no player id is ever a member of two matches that are active at the same
\* time, i.e. of two entries of currentMatches (created by a commit and not yet
\* removed by a result ingestion).
C1_NoPlayerInTwoActiveMatches ==
  \A k1, k2 \in 1..Len(mmFile.currentMatches) :
    k1 < k2 => Range(mmFile.currentMatches[k1].usersIds)
                 \cap Range(mmFile.currentMatches[k2].usersIds) = {}

\* C2: after a match is created from teams A and B, neither A nor B is in
\* pendingTeams["NM"] or pendingTeams["NMPZ"], whatever the queues held at the
\* commit.
C2_MatchedTeamsLeaveQueues ==
  [][\A t \in Teams :
       (scan[t].pc = "create" /\ startClock' = startClock + 1)
       => \A k \in 1..2 :
            /\ scan[t].match[1][k] \notin Range(mmFile'.pendingTeams.NM)
            /\ scan[t].match[1][k] \notin Range(mmFile'.pendingTeams.NMPZ)]_vars

\* C3: a delivery of a duel id for a match whose teams already recorded that id
\* leaves the teams' histories as they were, and every delivery for a match
\* ends with the match's players out of user_in_match and the match closed
\* (out of currentMatches).
C3_RedeliveryIdempotent ==
  [][\A i \in IngIds :
       LET m == ing[i].match
       IN /\ (ing[i].pc = "closing" /\ ing'[i].pc # "closing"
              /\ ing[i].duelId \in Range(inscTeams[m.team1].previousDuelIds)
              /\ ing[i].duelId \in Range(inscTeams[m.team2].previousDuelIds))
             => inscTeams' = inscTeams
          /\ (ing[i].pc \in {"closing", "writemm"} /\ ing'[i].pc = "idle")
             => /\ m \notin Range(mmFile'.currentMatches)
                /\ \A k \in 1..Len(m.usersIds) :
                     ~InRegistry(user_in_match', m.usersIds[k])]_vars

SideOf(m, p) == IF p \in Range(m.team1) THEN m.team1 ELSE m.team2

OtherSideOf(m, p) == IF p \in Range(m.team1) THEN m.team2 ELSE m.team1

\* C5: when a result is ingested for an active match and its duel id is not yet
\* recorded, the team of the winning player gets "1" with the other team as
\* opponent, the other team gets "0" with the winning team as opponent, and both
\* get the duel id and the match's gamemode as lastGamemode, whatever the
\* position of the winning player in usersIds.
C5_WinnerGetsTheWin ==
  [][\A i \in IngIds :
       LET m == ing[i].match
           d == ing[i].duelId
           w == SideOf(m, WinningPlayer(d))
           l == OtherSideOf(m, WinningPlayer(d))
       IN (ing[i].pc = "closing" /\ ing'[i].pc = "writemm"
           /\ d \notin Range(inscTeams[m.team1].previousDuelIds)
           /\ d \notin Range(inscTeams[m.team2].previousDuelIds))
          => /\ inscTeams'[w] =
                  [score |-> Append(inscTeams[w].score, "1"),
                   previousOpponents |-> Append(inscTeams[w].previousOpponents, l),
                   previousDuelIds |-> Append(inscTeams[w].previousDuelIds, d),
                   lastGamemode |-> m.matchType]
             /\ inscTeams'[l] =
                  [score |-> Append(inscTeams[l].score, "0"),
                   previousOpponents |-> Append(inscTeams[l].previousOpponents, w),
                   previousDuelIds |-> Append(inscTeams[l].previousDuelIds, d),
                   lastGamemode |-> m.matchType]]_vars

\* C6: in every reachable state every team's score, previousOpponents and
\* previousDuelIds have the same length.
C6_HistoryListsSameLength ==
  \A t \in Teams :
    /\ Len(inscTeams[t].score) = Len(inscTeams[t].previousOpponents)
    /\ Len(inscTeams[t].score) = Len(inscTeams[t].previousDuelIds)

\* a result was applied: a team has a recorded duel
C6_Witness ==
  /\ C6_HistoryListsSameLength
  /\ \E t \in Teams :
       /\ Len(inscTeams[t].score) = 1
       /\ Len(inscTeams[t].previousOpponents) = 1
       /\ \E i \in IngIds : ing[i].pc = "writemm"

====
